---- MODULE Spec2Model ----
(***************************************************************************)
(* The table routing metadata store of meta-srv (table_routes.rs):         *)
(* get_table_global_value, get_table_route_value, put_table_route_value,   *)
(* table_route_key, fetch_table and fetch_tables, run by concurrent        *)
(* callers against one shared key-value store and one catalog metadata     *)
(* manager.  Every await on the key-value store or on the catalog manager  *)
(* is one atomic step; callers interleave between those steps.             *)
(***************************************************************************)
EXTENDS Integers, Sequences, FiniteSets, TLC

\* ------------------------------------------------------------------ bounds
MaxTableId == 2
MaxNames == 3
MaxRows == 3
MaxMillis == 2

\* ------------------------------------------------------------- identifiers
CatalogNames == {"greptime"}
SchemaNames == {"public"}
TableNames == {"t", "u"}
TableIds == 1..MaxTableId
\* The callers of the routing store: the DDL executor and the region
\* allocation logic both read and write routes.
Procs == {"ddl_executor", "region_allocator"}

\* common_meta::table_name::TableName
TableName == [catalog_name : CatalogNames, schema_name : SchemaNames, table_name : TableNames]

\* common_meta::helper::TableGlobalKey
TableGlobalKey == [catalog_name : CatalogNames, schema_name : SchemaNames, table_name : TableNames]

\* common_meta::key::TableRouteKey
TableRouteKey == [table_id : TableIds, catalog_name : CatalogNames, schema_name : SchemaNames, table_name : TableNames]

\* table::engine::TableReference
TableReference == [catalog : CatalogNames, schema : SchemaNames, table : TableNames]

\* ----------------------------------------------------------------- values
None == [some |-> FALSE]
Some(v) == [some |-> TRUE, val |-> v]

Ok(v) == [ok |-> TRUE, val |-> v]
Err(kind) == [ok |-> FALSE, err |-> kind]
ErrKey(kind, key) == [ok |-> FALSE, err |-> kind, key |-> key]
Unit == [unit |-> TRUE]

\* api::v1::meta::TableRouteValue: the peers and, per region, the index of
\* the leader among them (the values of prepare_table_route_value, cut to
\* one region and two peers).
new_region_route(region_number, peers, leader_node) ==
    [region_id |-> region_number,
     leader_peer_index |-> (CHOOSE i \in 1..Len(peers) : peers[i] = leader_node) - 1,
     follower_peer_indexes |-> <<>>]

PeerIds == <<1, 2>>

TableRouteValue == {[peers |-> PeerIds, region_routes |-> <<new_region_route(1, PeerIds, n)>>] : n \in {1, 2}}

\* Values of the type TableRouteValue that no region allocation builds: a
\* leader index past the end of peers, a follower index past the end of
\* peers, one region id in two region routes, one node twice in peers.
MalformedRouteValue ==
    {[peers |-> PeerIds, region_routes |-> <<[new_region_route(1, PeerIds, 1) EXCEPT !.leader_peer_index = 2]>>],
     [peers |-> PeerIds, region_routes |-> <<[new_region_route(1, PeerIds, 1) EXCEPT !.follower_peer_indexes = <<5>>]>>],
     [peers |-> PeerIds, region_routes |-> <<new_region_route(1, PeerIds, 1), new_region_route(1, PeerIds, 2)>>],
     [peers |-> <<1, 1>>, region_routes |-> <<new_region_route(1, PeerIds, 1)>>]}

\* Every value of the type TableRouteValue, cut to the ones above.
AnyTableRouteValue == TableRouteValue \cup MalformedRouteValue

\* The invariants of a route value: every index is valid into peers, a
\* region id is in at most one region route, no node is twice in peers.
WellFormed(value) ==
    /\ \A i \in 1..Len(value.region_routes) :
          LET route == value.region_routes[i]
          IN  /\ route.leader_peer_index \in 0..(Len(value.peers) - 1)
              /\ \A j \in 1..Len(route.follower_peer_indexes) :
                    route.follower_peer_indexes[j] \in 0..(Len(value.peers) - 1)
    /\ \A i, j \in 1..Len(value.region_routes) :
          value.region_routes[i].region_id = value.region_routes[j].region_id => i = j
    /\ \A i, j \in 1..Len(value.peers) : value.peers[i] = value.peers[j] => i = j

\* RegionDistribution: node -> the regions the node leads, as a route value
\* gives it (the Datanode => Regions table of prepare_table_region_and_info_value).
region_distribution(value) ==
    LET routes == {value.region_routes[i] : i \in 1..Len(value.region_routes)}
        leader(route) == value.peers[route.leader_peer_index + 1]
    IN  [node \in {leader(route) : route \in routes} |->
            {route.region_id : route \in {r \in routes : leader(r) = node}}]

\* common_meta::helper::TableGlobalValue, cut to what table_id() reads
TableGlobalValue == [table_id : TableIds]

\* common_meta::key::table_info::TableInfoValue, cut to the fields fetch_tables reads
TableInfoValue == [table_id : TableIds, catalog_name : CatalogNames, schema_name : SchemaNames, name : TableNames]

\* --------------------------------------------------------- keys and codecs
\* The key encoders: injective, and a global key never equals a route key.
to_raw_key(key) == <<"__tg", key.catalog_name, key.schema_name, key.table_name>>
to_string(key) == <<"__meta_table_route", key.catalog_name, key.schema_name, key.table_name, key.table_id>>

GlobalRawKeys == {to_raw_key(k) : k \in TableGlobalKey}
RouteRawKeys == {to_string(k) : k \in TableRouteKey}
RawKeys == GlobalRawKeys \cup RouteRawKeys

\* The value codecs: decode(encode(v)) = v, and bytes that are no encoding
\* of a value of the wanted type do not decode.
into_bytes(value) == [codec |-> "TableRouteValue", payload |-> value]
try_into(bytes) == IF bytes.codec = "TableRouteValue" THEN Ok(bytes.payload) ELSE Err("DecodeTableRoute")
as_bytes(tgv) == [codec |-> "TableGlobalValue", payload |-> tgv]
from_bytes(bytes) == IF bytes.codec = "TableGlobalValue" THEN Ok(bytes.payload) ELSE Err("InvalidCatalogValue")

Garbage == [codec |-> "garbage", payload |-> Unit]
RouteBytes == {into_bytes(v) : v \in TableRouteValue}
GlobalBytes == {as_bytes(v) : v \in TableGlobalValue}

\* --------------------------------------------------------- the KV store port
\* get(key) -> Option<bytes>; put(key, value, prev_kv) overwrites the key.
KvGet(store, raw_key) == store[raw_key]
KvPut(store, req) == [store EXCEPT ![req.key] = Some(req.value)]
KvDelete(store, raw_key) == [store EXCEPT ![raw_key] = None]

\* ------------------------------------------------------ the routing store
\* A get_table_global_value that reports an absent key as an error, as
\* get_table_route_value does.
get_table_global_value_absent_is_error(store, key, kv_fails) ==
    IF kv_fails THEN Err("StoreUnavailable")
    ELSE LET kv == KvGet(store, to_raw_key(key))
         IN  IF ~kv.some THEN ErrKey("TableRouteNotFound", to_raw_key(key))
             ELSE LET tgv == from_bytes(kv.val)
                  IN  IF tgv.ok THEN Ok(Some(tgv.val)) ELSE Err("InvalidCatalogValue")

\* What one call of get_table_global_value returns when its KV get runs on
\* `store` (kv_fails: the KV get itself fails).
get_table_global_value(store, key, kv_fails) ==
    IF kv_fails THEN Err("StoreUnavailable")
    ELSE LET kv == KvGet(store, to_raw_key(key))
         IN  IF ~kv.some THEN Ok(None)
             ELSE LET tgv == from_bytes(kv.val)
                  IN  IF tgv.ok THEN Ok(Some(tgv.val)) ELSE Err("InvalidCatalogValue")

\* A get_table_route_value that takes bytes that do not decode for no route.
get_table_route_value_corrupt_is_not_found(store, key, kv_fails) ==
    IF kv_fails THEN Err("StoreUnavailable")
    ELSE LET kv == KvGet(store, to_string(key))
         IN  IF ~kv.some THEN ErrKey("TableRouteNotFound", to_string(key))
             ELSE LET trv == try_into(kv.val)
                  IN  IF trv.ok THEN Ok(trv.val) ELSE ErrKey("TableRouteNotFound", to_string(key))

\* What one call of get_table_route_value returns when its KV get runs on `store`.
get_table_route_value(store, key, kv_fails) ==
    IF kv_fails THEN Err("StoreUnavailable")
    ELSE LET kv == KvGet(store, to_string(key))
         IN  IF ~kv.some THEN ErrKey("TableRouteNotFound", to_string(key))
             ELSE LET trv == try_into(kv.val)
                  IN  IF trv.ok THEN Ok(trv.val) ELSE Err("DecodeTableRoute")

\* A PutRequest whose key leaves the table id out: the key of every table of
\* that name.
PutRequest_without_table_id(key, value) ==
    [key |-> to_string([key EXCEPT !.table_id = 1]), value |-> into_bytes(value), prev_kv |-> FALSE]

\* The PutRequest put_table_route_value builds.
PutRequest(key, value) == [key |-> to_string(key), value |-> into_bytes(value), prev_kv |-> FALSE]

\* A put that keeps the value a key already holds.
put_table_route_value_if_absent(store, key, value) ==
    IF KvGet(store, PutRequest(key, value).key).some THEN store ELSE KvPut(store, PutRequest(key, value))

\* A put that merges the new peers into the route a key already holds.
put_table_route_value_merge(store, key, value) ==
    LET req == PutRequest(key, value)
        old == KvGet(store, req.key)
    IN  IF old.some /\ try_into(old.val).ok
        THEN KvPut(store, [req EXCEPT !.value = into_bytes([value EXCEPT !.peers = try_into(old.val).val.peers \o @])])
        ELSE KvPut(store, req)

\* A put that replaces a route by deleting its key, and writes only into a
\* key that holds nothing.
put_table_route_value_delete_first(store, key, value) ==
    IF KvGet(store, PutRequest(key, value).key).some
    THEN KvDelete(store, PutRequest(key, value).key)
    ELSE KvPut(store, PutRequest(key, value))

\* The store after the KV put of put_table_route_value(key, value) is applied.
put_table_route_value(store, key, value) == KvPut(store, PutRequest(key, value))

\* A route key that leaves the resolved table id out and names the first table id.
table_route_key_ignores_id(table_id, t) ==
    [table_id |-> 1, catalog_name |-> t.catalog_name,
     schema_name |-> t.schema_name, table_name |-> t.table_name]

\* table_route_key, lines 67-74.
table_route_key(table_id, t) ==
    [table_id |-> table_id, catalog_name |-> t.catalog_name,
     schema_name |-> t.schema_name, table_name |-> t.table_name]

\* fetch_table, lines 80-84: the global key of a table reference.
tgk_of(table_ref) ==
    [catalog_name |-> table_ref.catalog, schema_name |-> table_ref.schema, table_name |-> table_ref.table]

\* fetch_tables, lines 117-122: the route key of a resolved table info.
trk_of(table_info) ==
    [table_id |-> table_info.table_id, catalog_name |-> table_info.catalog_name,
     schema_name |-> table_info.schema_name, table_name |-> table_info.name]

\* ------------------------------------------------------------------ state
VARIABLES
    kv_store,      \* the shared KV store: raw key -> Option<bytes>
    table_infos,   \* the catalog metadata manager: TableName -> Option<TableInfoValue>
    table_regions, \* the catalog metadata manager: TableName -> Option<RegionDistribution>
    pc,            \* per caller: the await its call is suspended at
    frame,         \* per caller: the arguments and locals of its call
    kv_ops,        \* per caller: the store and manager operations its call has issued
    ret,           \* per caller: what its finished call returned
    last_put,      \* per route key: what the last write applied to it stored
    default_call   \* a column default constraint, the column it is applied to, and the results

vars == <<kv_store, table_infos, table_regions, pc, frame, kv_ops, ret, last_put, default_call>>

NoFrame == [op |-> "none"]
NoRet == [pending |-> TRUE]
NeverPut == [st |-> "never"]
Corrupt == [st |-> "corrupt"]
Put(v) == [st |-> "put", val |-> v]

\* The sequences of at most n table names.
RECURSIVE NameSeqs(_)
NameSeqs(n) ==
    IF n = 0 THEN {<<>>}
    ELSE LET shorter == NameSeqs(n - 1)
         IN  shorter \cup {Append(s, t) : s \in {x \in shorter : Len(x) = n - 1}, t \in TableName}

\* No column default constraint is under evaluation.
NoCall == [constraint |-> "none"]

\* MemStore::new(), an empty catalog, and no call under way.
Init ==
    /\ default_call = NoCall
    /\ kv_store = [k \in RawKeys |-> None]
    /\ table_infos = [n \in TableName |-> None]
    /\ table_regions = [n \in TableName |-> None]
    /\ pc = [p \in Procs |-> "idle"]
    /\ frame = [p \in Procs |-> NoFrame]
    /\ kv_ops = [p \in Procs |-> <<>>]
    /\ ret = [p \in Procs |-> NoRet]
    /\ last_put = [k \in TableRouteKey |-> NeverPut]

KvOp(op, raw_key, failed) == [op |-> op, key |-> raw_key, failed |-> failed]
ManagerOp(name, failed) == [op |-> "get_old", name |-> name, failed |-> failed]

\* A finished call hands its result to its caller before the next operation
\* on the store is scheduled (Return touches nothing another caller reads).
Quiet == \A q \in Procs : pc[q] # "done"

\* The route values that `store` holds, at one instant, together with the
\* global value `tgv` of the table of `tgk`: the route under the route key of
\* tgv's table id, while tgv is what the global key holds.
Snapshot(store, tgk, tgv) ==
    LET trv == get_table_route_value(store, table_route_key(tgv.table_id, tgk), FALSE)
    IN  IF get_table_global_value(store, tgk, FALSE) = Ok(Some(tgv)) /\ trv.ok THEN {trv.val} ELSE {}

\* Every fetch_table between its two gets witnesses the store it runs against.
Watch(store) ==
    [q \in Procs |->
        IF pc[q] = "fetch_table_route"
        THEN [frame[q] EXCEPT !.snapshots = @ \cup Snapshot(store, frame[q].tgk, frame[q].tgv.val)]
        ELSE frame[q]]

\* ---------------------------------------------------------------- callers
\* get_table_global_value: line 35 is its one KV get.
GetTableGlobalValue(p) ==
    /\ pc[p] = "idle" /\ Quiet
    /\ \E key \in TableGlobalKey, kv_fails \in BOOLEAN :
          /\ frame' = [frame EXCEPT ![p] = [op |-> "get_table_global_value", key |-> key]]
          /\ ret' = [ret EXCEPT ![p] = get_table_global_value(kv_store, key, kv_fails)]
          /\ kv_ops' = [kv_ops EXCEPT ![p] = <<KvOp("get", to_raw_key(key), kv_fails)>>]
    /\ pc' = [pc EXCEPT ![p] = "done"]
    /\ UNCHANGED <<kv_store, table_infos, table_regions, last_put, default_call>>

\* A get_table_route_value that issues its KV get a second time when the
\* first one fails, and returns what the second one brings.
GetTableRouteValue_retry(p) ==
    /\ pc[p] = "idle" /\ Quiet
    /\ \E key \in TableRouteKey, kv_fails \in BOOLEAN :
          /\ frame' = [frame EXCEPT ![p] = [op |-> "get_table_route_value", key |-> key]]
          /\ ret' = [ret EXCEPT ![p] = get_table_route_value(kv_store, key, FALSE)]
          /\ kv_ops' = [kv_ops EXCEPT ![p] =
                            IF kv_fails
                            THEN <<KvOp("get", to_string(key), TRUE), KvOp("get", to_string(key), FALSE)>>
                            ELSE <<KvOp("get", to_string(key), FALSE)>>]
    /\ pc' = [pc EXCEPT ![p] = "done"]
    /\ UNCHANGED <<kv_store, table_infos, table_regions, last_put, default_call>>

\* get_table_route_value: lines 44-46 are its one KV get.
GetTableRouteValue(p) ==
    /\ pc[p] = "idle" /\ Quiet
    /\ \E key \in TableRouteKey, kv_fails \in BOOLEAN :
          /\ frame' = [frame EXCEPT ![p] = [op |-> "get_table_route_value", key |-> key]]
          /\ ret' = [ret EXCEPT ![p] = get_table_route_value(kv_store, key, kv_fails)]
          /\ kv_ops' = [kv_ops EXCEPT ![p] = <<KvOp("get", to_string(key), kv_fails)>>]
    /\ pc' = [pc EXCEPT ![p] = "done"]
    /\ UNCHANGED <<kv_store, table_infos, table_regions, last_put, default_call>>

\* put_table_route_value up to its await, lines 58-62 build the request:
\* called with a key of `keys` and a value of `values`.
CallPutTableRouteValueWith(p, keys, values) ==
    /\ pc[p] = "idle" /\ Quiet
    /\ \E key \in keys, value \in values :
          frame' = [frame EXCEPT ![p] = [op |-> "put_table_route_value", key |-> key, value |-> value,
                                            overwritten |-> NeverPut]]
    /\ pc' = [pc EXCEPT ![p] = "put_table_route_value"]
    /\ UNCHANGED <<kv_store, table_infos, table_regions, kv_ops, ret, last_put, default_call>>

\* put_table_route_value called with the routes the region allocation builds.
CallPutTableRouteValue(p) == CallPutTableRouteValueWith(p, TableRouteKey, TableRouteValue)

\* A put that refuses to replace the route a key already holds.
PutTableRouteValue_create_only(p) ==
    /\ pc[p] = "put_table_route_value" /\ Quiet
    /\ LET key == frame[p].key
           value == frame[p].value
           exists == KvGet(kv_store, PutRequest(key, value).key).some
           store == IF exists THEN kv_store ELSE put_table_route_value(kv_store, key, value)
       IN  /\ kv_store' = store
           /\ frame' = [Watch(store) EXCEPT ![p].overwritten = last_put[key]]
           /\ last_put' = IF exists THEN last_put ELSE [last_put EXCEPT ![key] = Put(value)]
           /\ ret' = [ret EXCEPT ![p] = IF exists THEN Err("TableRouteExists") ELSE Ok(Unit)]
           /\ kv_ops' = [kv_ops EXCEPT ![p] = <<KvOp("put", PutRequest(key, value).key, FALSE)>>]
    /\ pc' = [pc EXCEPT ![p] = "done"]
    /\ UNCHANGED <<table_infos, table_regions, default_call>>

\* A put_table_route_value that checks the route value and refuses one that
\* breaks the invariants.
PutTableRouteValue_validating(p) ==
    /\ pc[p] = "put_table_route_value" /\ Quiet
    /\ \E kv_fails \in BOOLEAN, applied \in BOOLEAN :
          LET key == frame[p].key
              value == frame[p].value
              valid == WellFormed(value)
              store == IF applied /\ valid THEN put_table_route_value(kv_store, key, value) ELSE kv_store
          IN  /\ ~kv_fails => applied
              /\ kv_store' = store
              /\ frame' = [Watch(store) EXCEPT ![p].overwritten = last_put[key]]
              /\ last_put' = IF applied /\ valid THEN [last_put EXCEPT ![key] = Put(value)] ELSE last_put
              /\ ret' = [ret EXCEPT ![p] = IF ~valid THEN Err("InvalidRouteValue")
                                             ELSE IF kv_fails THEN Err("StoreUnavailable") ELSE Ok(Unit)]
              /\ kv_ops' = [kv_ops EXCEPT ![p] = <<KvOp("put", PutRequest(key, value).key, kv_fails)>>]
    /\ pc' = [pc EXCEPT ![p] = "done"]
    /\ UNCHANGED <<table_infos, table_regions, default_call>>

\* A put_table_route_value that drops the error of its KV put.
PutTableRouteValue_swallow_failure(p) ==
    /\ pc[p] = "put_table_route_value" /\ Quiet
    /\ \E kv_fails \in BOOLEAN, applied \in BOOLEAN :
          LET key == frame[p].key
              value == frame[p].value
              store == IF applied THEN put_table_route_value(kv_store, key, value) ELSE kv_store
          IN  /\ ~kv_fails => applied
              /\ kv_store' = store
              /\ frame' = [Watch(store) EXCEPT ![p].overwritten = last_put[key]]
              /\ last_put' = IF applied THEN [last_put EXCEPT ![key] = Put(value)] ELSE last_put
              /\ ret' = [ret EXCEPT ![p] = Ok(Unit)]
              /\ kv_ops' = [kv_ops EXCEPT ![p] = <<KvOp("put", PutRequest(key, value).key, kv_fails)>>]
    /\ pc' = [pc EXCEPT ![p] = "done"]
    /\ UNCHANGED <<table_infos, table_regions, default_call>>

\* put_table_route_value, line 63: its one KV put.  The put is applied and
\* acknowledged, or it fails; a put that fails was either not applied, or
\* applied without the caller learning it.
PutTableRouteValue(p) ==
    /\ pc[p] = "put_table_route_value" /\ Quiet
    /\ \E kv_fails \in BOOLEAN, applied \in BOOLEAN :
          LET key == frame[p].key
              value == frame[p].value
              store == IF applied THEN put_table_route_value(kv_store, key, value) ELSE kv_store
          IN  /\ ~kv_fails => applied
              /\ kv_store' = store
              /\ frame' = [Watch(store) EXCEPT ![p].overwritten = last_put[key]]
              /\ last_put' = IF applied THEN [last_put EXCEPT ![key] = Put(value)] ELSE last_put
              /\ ret' = [ret EXCEPT ![p] = IF kv_fails THEN Err("StoreUnavailable") ELSE Ok(Unit)]
              /\ kv_ops' = [kv_ops EXCEPT ![p] = <<KvOp("put", PutRequest(key, value).key, kv_fails)>>]
    /\ pc' = [pc EXCEPT ![p] = "done"]
    /\ UNCHANGED <<table_infos, table_regions, default_call>>

\* A fetch_table that, finding no global value, goes on to read the route of
\* the first table id.
FetchTableGlobal_default_id(p) ==
    /\ pc[p] = "idle" /\ Quiet
    /\ \E table_ref \in TableReference, kv_fails \in BOOLEAN :
          LET tgk == tgk_of(table_ref)
              tgv == get_table_global_value(kv_store, tgk, kv_fails)
              found == IF tgv.ok /\ ~tgv.val.some THEN Ok(Some([table_id |-> 1])) ELSE tgv
              go_on == found.ok
          IN  /\ frame' = [frame EXCEPT ![p] =
                              [op |-> "fetch_table", table_ref |-> table_ref, tgk |-> tgk,
                               tgv |-> IF go_on THEN found.val ELSE None,
                               snapshots |-> IF go_on THEN Snapshot(kv_store, tgk, found.val.val) ELSE {}]]
              /\ kv_ops' = [kv_ops EXCEPT ![p] = <<KvOp("get", to_raw_key(tgk), kv_fails)>>]
              /\ pc' = [pc EXCEPT ![p] = IF go_on THEN "fetch_table_route" ELSE "done"]
              /\ ret' = [ret EXCEPT ![p] = IF go_on THEN NoRet ELSE tgv]
    /\ UNCHANGED <<kv_store, table_infos, table_regions, last_put, default_call>>

\* fetch_table up to its first await, line 86.
FetchTableGlobal(p) ==
    /\ pc[p] = "idle" /\ Quiet
    /\ \E table_ref \in TableReference, kv_fails \in BOOLEAN :
          LET tgk == tgk_of(table_ref)
              tgv == get_table_global_value(kv_store, tgk, kv_fails)
              go_on == tgv.ok /\ tgv.val.some
          IN  /\ frame' = [frame EXCEPT ![p] =
                              [op |-> "fetch_table", table_ref |-> table_ref, tgk |-> tgk,
                               tgv |-> IF go_on THEN tgv.val ELSE None,
                               snapshots |-> IF go_on THEN Snapshot(kv_store, tgk, tgv.val.val) ELSE {}]]
              /\ kv_ops' = [kv_ops EXCEPT ![p] = <<KvOp("get", to_raw_key(tgk), kv_fails)>>]
              /\ pc' = [pc EXCEPT ![p] = IF go_on THEN "fetch_table_route" ELSE "done"]
              /\ ret' = [ret EXCEPT ![p] = IF go_on THEN NoRet ELSE tgv]
    /\ UNCHANGED <<kv_store, table_infos, table_regions, last_put, default_call>>

\* A fetch_table that folds a missing route into None.
FetchTableRoute_missing_is_none(p) ==
    /\ pc[p] = "fetch_table_route" /\ Quiet
    /\ \E kv_fails \in BOOLEAN :
          LET tgv == frame[p].tgv.val
              trk == table_route_key(tgv.table_id, frame[p].tgk)
              trv == get_table_route_value(kv_store, trk, kv_fails)
          IN  /\ kv_ops' = [kv_ops EXCEPT ![p] = Append(@, KvOp("get", to_string(trk), kv_fails))]
              /\ ret' = [ret EXCEPT ![p] =
                            IF trv.ok THEN Ok(Some(<<tgv, trv.val>>))
                            ELSE IF trv.err = "TableRouteNotFound" THEN Ok(None) ELSE trv]
    /\ pc' = [pc EXCEPT ![p] = "done"]
    /\ UNCHANGED <<kv_store, table_infos, table_regions, frame, last_put, default_call>>

\* A fetch_table that, finding no route for the table id it resolved, drops
\* the global value that names it.
FetchTableRoute_drops_dangling(p) ==
    /\ pc[p] = "fetch_table_route" /\ Quiet
    /\ \E kv_fails \in BOOLEAN :
          LET tgv == frame[p].tgv.val
              trk == table_route_key(tgv.table_id, frame[p].tgk)
              trv == get_table_route_value(kv_store, trk, kv_fails)
              dangling == ~kv_fails /\ ~KvGet(kv_store, to_string(trk)).some
              store == IF dangling THEN KvDelete(kv_store, to_raw_key(frame[p].tgk)) ELSE kv_store
          IN  /\ kv_ops' = [kv_ops EXCEPT ![p] = Append(@, KvOp("get", to_string(trk), kv_fails))]
              /\ ret' = [ret EXCEPT ![p] = IF trv.ok THEN Ok(Some(<<tgv, trv.val>>)) ELSE trv]
              /\ kv_store' = store
              /\ frame' = Watch(store)
    /\ pc' = [pc EXCEPT ![p] = "done"]
    /\ UNCHANGED <<table_infos, table_regions, last_put, default_call>>

\* fetch_table from line 88 on: the route of the table id just resolved.
FetchTableRoute(p) ==
    /\ pc[p] = "fetch_table_route" /\ Quiet
    /\ \E kv_fails \in BOOLEAN :
          LET tgv == frame[p].tgv.val
              trk == table_route_key(tgv.table_id, frame[p].tgk)
              trv == get_table_route_value(kv_store, trk, kv_fails)
          IN  /\ kv_ops' = [kv_ops EXCEPT ![p] = Append(@, KvOp("get", to_string(trk), kv_fails))]
              /\ ret' = [ret EXCEPT ![p] = IF trv.ok THEN Ok(Some(<<tgv, trv.val>>)) ELSE trv]
    /\ pc' = [pc EXCEPT ![p] = "done"]
    /\ UNCHANGED <<kv_store, table_infos, table_regions, frame, last_put, default_call>>

\* fetch_tables, lines 102-104; with no name to look up it returns at line 128.
CallFetchTables(p) ==
    /\ pc[p] = "idle" /\ Quiet
    /\ \E table_names \in NameSeqs(MaxNames) :
          /\ frame' = [frame EXCEPT ![p] =
                          [op |-> "fetch_tables", table_names |-> table_names, i |-> 1,
                           tgv |-> None, tables |-> <<>>]]
          /\ pc' = [pc EXCEPT ![p] = IF table_names = <<>> THEN "done" ELSE "fetch_tables_info"]
          /\ ret' = [ret EXCEPT ![p] = IF table_names = <<>> THEN Ok([tables |-> <<>>]) ELSE NoRet]
    /\ UNCHANGED <<kv_store, table_infos, table_regions, kv_ops, last_put, default_call>>

\* A fetch_tables that stops at the first name without a table info and
\* returns what it has collected.
FetchTablesInfo_break_on_absent(p) ==
    /\ pc[p] = "fetch_tables_info" /\ Quiet
    /\ \E manager_fails \in BOOLEAN :
          LET f == frame[p]
              table_name == f.table_names[f.i]
              tgv == table_infos[table_name]
          IN  /\ kv_ops' = [kv_ops EXCEPT ![p] = Append(@, ManagerOp(table_name, manager_fails))]
              /\ IF manager_fails
                 THEN /\ pc' = [pc EXCEPT ![p] = "done"]
                      /\ ret' = [ret EXCEPT ![p] = Err("TableMetadataManager")]
                      /\ frame' = frame
                 ELSE IF tgv.some
                 THEN /\ pc' = [pc EXCEPT ![p] = "fetch_tables_route"]
                      /\ frame' = [frame EXCEPT ![p].tgv = tgv]
                      /\ ret' = ret
                 ELSE \* break
                      /\ pc' = [pc EXCEPT ![p] = "done"]
                      /\ frame' = frame
                      /\ ret' = [ret EXCEPT ![p] = Ok([tables |-> f.tables])]
    /\ UNCHANGED <<kv_store, table_infos, table_regions, last_put, default_call>>

\* A fetch_tables that takes a failed catalog lookup for a name without a
\* table info, and skips the name.
FetchTablesInfo_failure_is_absent(p) ==
    /\ pc[p] = "fetch_tables_info" /\ Quiet
    /\ \E manager_fails \in BOOLEAN :
          LET f == frame[p]
              table_name == f.table_names[f.i]
              tgv == table_infos[table_name]
              last == f.i = Len(f.table_names)
          IN  /\ kv_ops' = [kv_ops EXCEPT ![p] = Append(@, ManagerOp(table_name, manager_fails))]
              /\ IF ~manager_fails /\ tgv.some
                 THEN /\ pc' = [pc EXCEPT ![p] = "fetch_tables_route"]
                      /\ frame' = [frame EXCEPT ![p].tgv = tgv]
                      /\ ret' = ret
                 ELSE /\ pc' = [pc EXCEPT ![p] = IF last THEN "done" ELSE "fetch_tables_info"]
                      /\ frame' = [frame EXCEPT ![p].i = @ + 1]
                      /\ ret' = [ret EXCEPT ![p] = IF last THEN Ok([tables |-> f.tables]) ELSE NoRet]
    /\ UNCHANGED <<kv_store, table_infos, table_regions, last_put, default_call>>

\* A fetch_tables that, while it waits for the answer for the i-th name,
\* already asks the catalog manager for the next name.
FetchTablesInfo_lookahead(p) ==
    /\ pc[p] = "fetch_tables_info" /\ Quiet
    /\ \E manager_fails \in BOOLEAN :
          LET f == frame[p]
              table_name == f.table_names[f.i]
              tgv == table_infos[table_name]
              last == f.i = Len(f.table_names)
              ahead == IF last THEN <<>> ELSE <<ManagerOp(f.table_names[f.i + 1], FALSE)>>
          IN  /\ kv_ops' = [kv_ops EXCEPT ![p] = Append(@, ManagerOp(table_name, manager_fails)) \o ahead]
              /\ IF manager_fails
                 THEN /\ pc' = [pc EXCEPT ![p] = "done"]
                      /\ ret' = [ret EXCEPT ![p] = Err("TableMetadataManager")]
                      /\ frame' = frame
                 ELSE IF tgv.some
                 THEN /\ pc' = [pc EXCEPT ![p] = "fetch_tables_route"]
                      /\ frame' = [frame EXCEPT ![p].tgv = tgv]
                      /\ ret' = ret
                 ELSE \* continue
                      /\ pc' = [pc EXCEPT ![p] = IF last THEN "done" ELSE "fetch_tables_info"]
                      /\ frame' = [frame EXCEPT ![p].i = @ + 1]
                      /\ ret' = [ret EXCEPT ![p] = IF last THEN Ok([tables |-> f.tables]) ELSE NoRet]
    /\ UNCHANGED <<kv_store, table_infos, table_regions, last_put, default_call>>

\* fetch_tables, lines 108-114: the catalog manager's answer for the i-th name.
FetchTablesInfo(p) ==
    /\ pc[p] = "fetch_tables_info" /\ Quiet
    /\ \E manager_fails \in BOOLEAN :
          LET f == frame[p]
              table_name == f.table_names[f.i]
              tgv == table_infos[table_name]
              last == f.i = Len(f.table_names)
          IN  /\ kv_ops' = [kv_ops EXCEPT ![p] = Append(@, ManagerOp(table_name, manager_fails))]
              /\ IF manager_fails
                 THEN /\ pc' = [pc EXCEPT ![p] = "done"]
                      /\ ret' = [ret EXCEPT ![p] = Err("TableMetadataManager")]
                      /\ frame' = frame
                 ELSE IF tgv.some
                 THEN /\ pc' = [pc EXCEPT ![p] = "fetch_tables_route"]
                      /\ frame' = [frame EXCEPT ![p].tgv = tgv]
                      /\ ret' = ret
                 ELSE \* continue
                      /\ pc' = [pc EXCEPT ![p] = IF last THEN "done" ELSE "fetch_tables_info"]
                      /\ frame' = [frame EXCEPT ![p].i = @ + 1]
                      /\ ret' = [ret EXCEPT ![p] = IF last THEN Ok([tables |-> f.tables]) ELSE NoRet]
    /\ UNCHANGED <<kv_store, table_infos, table_regions, last_put, default_call>>

\* A fetch_tables that skips a table whose route it cannot read, as it skips
\* a name without a table info.
FetchTablesRoute_skip_on_error(p) ==
    /\ pc[p] = "fetch_tables_route" /\ Quiet
    /\ \E kv_fails \in BOOLEAN :
          LET f == frame[p]
              tgv == f.tgv.val
              trk == trk_of(tgv)
              trv == get_table_route_value(kv_store, trk, kv_fails)
              tables == IF trv.ok THEN Append(f.tables, <<tgv, trv.val>>) ELSE f.tables
              last == f.i = Len(f.table_names)
          IN  /\ kv_ops' = [kv_ops EXCEPT ![p] = Append(@, KvOp("get", to_string(trk), kv_fails))]
              /\ pc' = [pc EXCEPT ![p] = IF last THEN "done" ELSE "fetch_tables_info"]
              /\ frame' = [frame EXCEPT ![p] = [@ EXCEPT !.tables = tables, !.i = @ + 1, !.tgv = None]]
              /\ ret' = [ret EXCEPT ![p] = IF last THEN Ok([tables |-> tables]) ELSE NoRet]
    /\ UNCHANGED <<kv_store, table_infos, table_regions, last_put, default_call>>

\* fetch_tables, lines 115-125: the route of the table info just resolved.
FetchTablesRoute(p) ==
    /\ pc[p] = "fetch_tables_route" /\ Quiet
    /\ \E kv_fails \in BOOLEAN :
          LET f == frame[p]
              tgv == f.tgv.val
              trk == trk_of(tgv)
              trv == get_table_route_value(kv_store, trk, kv_fails)
              tables == Append(f.tables, <<tgv, trv.val>>)
              last == f.i = Len(f.table_names)
          IN  /\ kv_ops' = [kv_ops EXCEPT ![p] = Append(@, KvOp("get", to_string(trk), kv_fails))]
              /\ IF ~trv.ok
                 THEN /\ pc' = [pc EXCEPT ![p] = "done"]
                      /\ ret' = [ret EXCEPT ![p] = trv]
                      /\ frame' = frame
                 ELSE /\ pc' = [pc EXCEPT ![p] = IF last THEN "done" ELSE "fetch_tables_info"]
                      /\ frame' = [frame EXCEPT ![p] = [@ EXCEPT !.tables = tables, !.i = @ + 1, !.tgv = None]]
                      /\ ret' = [ret EXCEPT ![p] = IF last THEN Ok([tables |-> tables]) ELSE NoRet]
    /\ UNCHANGED <<kv_store, table_infos, table_regions, last_put, default_call>>

\* The caller takes the result; its next call starts afresh.
Return(p) ==
    /\ pc[p] = "done"
    /\ pc' = [pc EXCEPT ![p] = "idle"]
    /\ frame' = [frame EXCEPT ![p] = NoFrame]
    /\ kv_ops' = [kv_ops EXCEPT ![p] = <<>>]
    /\ ret' = [ret EXCEPT ![p] = NoRet]
    /\ UNCHANGED <<kv_store, table_infos, table_regions, last_put, default_call>>

\* ------------------------------------------------------- the other components
\* DDL and the other components of the cluster write the same store: a
\* create or alter writes a new value under a key, a drop deletes the key,
\* and a faulty writer leaves bytes that do not decode.
Written(bytes) == IF bytes.codec = "TableRouteValue" THEN Put(bytes.payload) ELSE Corrupt

ExternalPutGlobal(key) ==
    /\ Quiet
    /\ \E bytes \in GlobalBytes \cup {Garbage} :
          LET store == KvPut(kv_store, [key |-> to_raw_key(key), value |-> bytes, prev_kv |-> FALSE])
          IN  kv_store' = store /\ frame' = Watch(store)
    /\ UNCHANGED <<table_infos, table_regions, pc, kv_ops, ret, last_put, default_call>>

ExternalDeleteGlobal(key) ==
    /\ Quiet
    /\ LET store == KvDelete(kv_store, to_raw_key(key))
       IN  kv_store' = store /\ frame' = Watch(store)
    /\ UNCHANGED <<table_infos, table_regions, pc, kv_ops, ret, last_put, default_call>>

ExternalPutRoute(key) ==
    /\ Quiet
    /\ \E bytes \in RouteBytes \cup {Garbage} :
          LET store == KvPut(kv_store, [key |-> to_string(key), value |-> bytes, prev_kv |-> FALSE])
          IN  kv_store' = store /\ frame' = Watch(store) /\ last_put' = [last_put EXCEPT ![key] = Written(bytes)]
    /\ UNCHANGED <<table_infos, table_regions, pc, kv_ops, ret, default_call>>

ExternalDeleteRoute(key) ==
    /\ Quiet
    /\ LET store == KvDelete(kv_store, to_string(key))
       IN  kv_store' = store /\ frame' = Watch(store) /\ last_put' = [last_put EXCEPT ![key] = NeverPut]
    /\ UNCHANGED <<table_infos, table_regions, pc, kv_ops, ret, default_call>>

\* The name a table info is stored under.
name_of(table_info) ==
    [catalog_name |-> table_info.catalog_name, schema_name |-> table_info.schema_name,
     table_name |-> table_info.name]

\* The table a route key names.
name_of_key(key) ==
    [catalog_name |-> key.catalog_name, schema_name |-> key.schema_name, table_name |-> key.table_name]

\* table_info_manager().put_old(table_info), and the removal of a table's info.
CatalogPut(table_info) ==
    /\ Quiet
    /\ table_infos' = [table_infos EXCEPT ![name_of(table_info)] = Some(table_info)]
    /\ UNCHANGED <<kv_store, table_regions, pc, frame, kv_ops, ret, last_put, default_call>>

CatalogDelete(table_name) ==
    /\ Quiet
    /\ table_infos' = [table_infos EXCEPT ![table_name] = None]
    /\ UNCHANGED <<kv_store, table_regions, pc, frame, kv_ops, ret, last_put, default_call>>

\* table_region_manager().put_old(table_name, distribution): the catalog
\* manager persists, for a table it holds, the distribution of the table's
\* stored route.
CatalogPutRegions(table_name) ==
    /\ Quiet
    /\ table_infos[table_name].some
    /\ LET trv == get_table_route_value(kv_store, trk_of(table_infos[table_name].val), FALSE)
       IN  /\ trv.ok
           /\ table_regions' = [table_regions EXCEPT ![table_name] = Some(region_distribution(trv.val))]
    /\ UNCHANGED <<kv_store, table_infos, pc, frame, kv_ops, ret, last_put, default_call>>

\* ------------------------------------------------------------ specifications
\* Every operation, by any caller, against a store and a catalog that the
\* other components write at any time.
Next ==
    \/ \E p \in Procs :
        \/ GetTableGlobalValue(p)
        \/ GetTableRouteValue(p)
        \/ CallPutTableRouteValue(p)
        \/ PutTableRouteValue(p)
        \/ FetchTableGlobal(p)
        \/ FetchTableRoute(p)
        \/ CallFetchTables(p)
        \/ FetchTablesInfo(p)
        \/ FetchTablesRoute(p)
        \/ Return(p)
    \/ \E key \in TableGlobalKey : ExternalPutGlobal(key) \/ ExternalDeleteGlobal(key)
    \/ \E key \in TableRouteKey : ExternalPutRoute(key) \/ ExternalDeleteRoute(key)
    \/ \E table_info \in TableInfoValue : CatalogPut(table_info)
    \/ \E table_name \in TableName : CatalogDelete(table_name) \/ CatalogPutRegions(table_name)

Spec == Init /\ [][Next]_vars

\* The calls of one KV operation, run by two concurrent callers on a store
\* that only they write (the MemStore of the unit test).
NextStore ==
    \E p \in Procs :
        \/ GetTableGlobalValue(p)
        \/ GetTableRouteValue(p)
        \/ CallPutTableRouteValue(p)
        \/ PutTableRouteValue(p)
        \/ Return(p)

SpecStore == Init /\ [][NextStore]_vars

\* No call is under way.
Idle == \A q \in Procs : pc[q] = "idle"

\* The table that DDL creates, alters and drops while the callers run.
DdlTables == {"t"}
DdlGlobalKeys == {key \in TableGlobalKey : key.table_name \in DdlTables}
DdlRouteKeys == {key \in TableRouteKey : key.table_name \in DdlTables}
DdlTableInfos == {table_info \in TableInfoValue : table_info.name \in DdlTables}

\* put_table_route_value, one call at a time, while DDL writes and drops the
\* global value of one table at any time, also while a put is under way.
NextPut ==
    \/ \E p \in Procs :
        \/ Idle /\ CallPutTableRouteValue(p)
        \/ PutTableRouteValue(p)
        \/ Return(p)
    \/ \E key \in DdlGlobalKeys : ExternalPutGlobal(key) \/ ExternalDeleteGlobal(key)

SpecPut == Init /\ [][NextPut]_vars

\* put_table_route_value called by two concurrent callers with any value of
\* the type TableRouteValue, on the routes of one table.
NextPutAny ==
    \E p \in Procs :
        \/ CallPutTableRouteValueWith(p, DdlRouteKeys, AnyTableRouteValue)
        \/ PutTableRouteValue(p)
        \/ Return(p)

SpecPutAny == Init /\ [][NextPutAny]_vars

\* put_table_route_value on the routes of one table, by two concurrent
\* callers, while the catalog manager creates the table's info and persists
\* the region distribution of the route the store holds.
NextRegions ==
    \/ \E p \in Procs :
        \/ CallPutTableRouteValueWith(p, DdlRouteKeys, TableRouteValue)
        \/ PutTableRouteValue(p)
        \/ Return(p)
    \/ \E table_info \in DdlTableInfos :
          ~table_infos[name_of(table_info)].some /\ CatalogPut(table_info)
    \/ \E table_name \in TableName : CatalogPutRegions(table_name)

SpecRegions == Init /\ [][NextRegions]_vars

\* The routes of one table from creation to drop: two concurrent callers put
\* and get them, and DDL drops them at any time.
NextLifecycle ==
    \/ \E p \in Procs :
        \/ CallPutTableRouteValueWith(p, DdlRouteKeys, TableRouteValue)
        \/ PutTableRouteValue(p)
        \/ GetTableRouteValue(p)
        \/ Return(p)
    \/ \E key \in DdlRouteKeys : ExternalDeleteRoute(key)

SpecLifecycle == Init /\ [][NextLifecycle]_vars

\* fetch_table by two concurrent callers, while the other components write
\* and drop the global value and the routes of one table at any time, also
\* between the two gets of a call.
NextFetchTable ==
    \/ \E p \in Procs :
        \/ FetchTableGlobal(p)
        \/ FetchTableRoute(p)
        \/ Return(p)
    \/ \E key \in DdlGlobalKeys : ExternalPutGlobal(key) \/ ExternalDeleteGlobal(key)
    \/ \E key \in DdlRouteKeys : ExternalPutRoute(key) \/ ExternalDeleteRoute(key)

SpecFetchTable == Init /\ [][NextFetchTable]_vars

\* The route keys of the tables the catalog holds.
CatalogedRouteKeys == {trk_of(table_infos[n].val) : n \in {m \in TableName : table_infos[m].some}}

\* fetch_tables against a catalog and routes that change between the calls
\* and hold still during one: a table is created (its info first, its route
\* after), its route is altered, corrupted or lost, and the table is dropped
\* (its route first, its info after).
NextFetchTables ==
    \/ \E p \in Procs :
        \/ Idle /\ CallFetchTables(p)
        \/ FetchTablesInfo(p)
        \/ FetchTablesRoute(p)
        \/ Return(p)
    \/ Idle /\ \E table_info \in TableInfoValue :
                  ~table_infos[name_of(table_info)].some /\ CatalogPut(table_info)
    \/ Idle /\ \E key \in CatalogedRouteKeys : ExternalPutRoute(key) \/ ExternalDeleteRoute(key)
    \/ Idle /\ \E table_name \in TableName :
                  /\ table_infos[table_name].some
                  /\ ~kv_store[to_string(trk_of(table_infos[table_name].val))].some
                  /\ CatalogDelete(table_name)

SpecFetchTables == Init /\ [][NextFetchTables]_vars

\* Every read of the routing store, one call at a time, against a store and
\* a catalog that the other components write between the calls: the global
\* value, the routes and the info of one table are written, corrupted and
\* dropped in any order.
NextRead ==
    \/ \E p \in Procs :
        \/ Idle /\ GetTableGlobalValue(p)
        \/ Idle /\ GetTableRouteValue(p)
        \/ Idle /\ FetchTableGlobal(p)
        \/ FetchTableRoute(p)
        \/ Idle /\ CallFetchTables(p)
        \/ FetchTablesInfo(p)
        \/ FetchTablesRoute(p)
        \/ Return(p)
    \/ Idle /\ \E key \in DdlGlobalKeys : ExternalPutGlobal(key) \/ ExternalDeleteGlobal(key)
    \/ Idle /\ \E key \in DdlRouteKeys : ExternalPutRoute(key) \/ ExternalDeleteRoute(key)
    \/ Idle /\ \E table_info \in DdlTableInfos : CatalogPut(table_info)
    \/ Idle /\ \E table_name \in TableName : table_name.table_name \in DdlTables /\ CatalogDelete(table_name)

SpecRead == Init /\ [][NextRead]_vars

\* The route key of the first table id of the table that DDL works on.
FirstRouteKeys == {key \in DdlRouteKeys : key.table_id = 1}

\* fetch_table, lines 76-96, run from its first line to its last against
\* `store` with a store that answers.
fetch_table(store, table_ref) ==
    LET tgk == tgk_of(table_ref)
        tgv == get_table_global_value(store, tgk, FALSE)
    IN  IF ~(tgv.ok /\ tgv.val.some) THEN tgv
        ELSE LET trv == get_table_route_value(store, table_route_key(tgv.val.val.table_id, tgk), FALSE)
             IN  IF trv.ok THEN Ok(Some(<<tgv.val.val, trv.val>>)) ELSE trv

\* fetch_tables, lines 98-129, run from its first line to its last against
\* `store` and the catalog `infos`, both answering: the loop from the name at
\* the head of `table_names` on, with `tables` collected so far.
RECURSIVE fetch_tables(_, _, _, _)
fetch_tables(store, infos, table_names, tables) ==
    IF table_names = <<>> THEN Ok([tables |-> tables])
    ELSE LET table_info == infos[Head(table_names)]
         IN  IF ~table_info.some THEN fetch_tables(store, infos, Tail(table_names), tables)
             ELSE LET trv == get_table_route_value(store, trk_of(table_info.val), FALSE)
                  IN  IF ~trv.ok THEN trv
                      ELSE fetch_tables(store, infos, Tail(table_names),
                                        Append(tables, <<table_info.val, trv.val>>))

\* What the read of the frame `f` returns to a caller that runs it alone
\* against `store` and `infos`.
RunAlone(f, store, infos) ==
    CASE f.op = "get_table_global_value" -> get_table_global_value(store, f.key, FALSE)
      [] f.op = "get_table_route_value" -> get_table_route_value(store, f.key, FALSE)
      [] f.op = "fetch_table" -> fetch_table(store, f.table_ref)
      [] f.op = "fetch_tables" -> fetch_tables(store, infos, f.table_names, <<>>)

\* The reads of the routing store by callers that run at the same time,
\* against a store and a catalog that the other components write only while
\* no read is under way: the global value and the info of one table, and
\* the route of its first table id, are written, corrupted and dropped.
NextReaders ==
    \/ \E p \in Procs :
        \/ GetTableGlobalValue(p)
        \/ GetTableRouteValue(p)
        \/ FetchTableGlobal(p)
        \/ FetchTableRoute(p)
        \/ CallFetchTables(p)
        \/ FetchTablesInfo(p)
        \/ FetchTablesRoute(p)
        \/ Return(p)
    \/ Idle /\ \E key \in DdlGlobalKeys : ExternalPutGlobal(key) \/ ExternalDeleteGlobal(key)
    \/ Idle /\ \E key \in FirstRouteKeys : ExternalPutRoute(key) \/ ExternalDeleteRoute(key)
    \/ Idle /\ \E table_info \in DdlTableInfos : CatalogPut(table_info)
    \/ Idle /\ \E table_name \in TableName : table_name.table_name \in DdlTables /\ CatalogDelete(table_name)

SpecReaders == Init /\ [][NextReaders]_vars

\* ------------------------------------------- column default constraints
\* constraint.rs: ColumnDefaultConstraint::validate and create_default_vector.
CURRENT_TIMESTAMP == "current_timestamp()"

\* ConcreteDataType, by its logical type id.
DataTypes == {"Boolean", "Int32", "UInt32", "Int64", "String", "TimestampSecond", "TimestampMillisecond"}

\* Value: Null and one value of some of the types.
NullValue == [type |-> "Null", v |-> 0]
Values ==
    {NullValue} \cup {[type |-> t, v |-> 10] : t \in {"Int32", "UInt32", "Int64", "TimestampMillisecond"}}
                \cup {[type |-> "Boolean", v |-> 1]}

\* ColumnDefaultConstraint::Function(expr) and ColumnDefaultConstraint::Value(v)
Function(expr) == [kind |-> "Function", expr |-> expr, value |-> NullValue]
Value(v) == [kind |-> "Value", expr |-> "", value |-> v]
ColumnDefaultConstraint ==
    {Function(expr) : expr \in {CURRENT_TIMESTAMP, "hello()", "now()"}} \cup {Value(v) : v \in Values}

null_value == Value(NullValue)

is_null(v) == v.type = "Null"
value_logical_type_id(v) == v.type
logical_type_id(data_type) == data_type

\* ConcreteDataType::Timestamp(_)
is_timestamp(data_type) == data_type \in {"TimestampSecond", "TimestampMillisecond"}

\* ConcreteDataType::is_timestamp_compatible: a timestamp type or Int64.
is_timestamp_compatible(data_type) == is_timestamp(data_type) \/ data_type = "Int64"

\* Returns true if this constraint might create NULL.
maybe_null(constraint) == constraint.kind = "Value" /\ constraint.value = NullValue

\* validate without its first ensure!.
validate_without_null_check(constraint, data_type, is_nullable) ==
    IF constraint.kind = "Function"
    THEN IF constraint.expr # CURRENT_TIMESTAMP THEN Err("UnsupportedDefaultExpr")
         ELSE IF ~is_timestamp_compatible(data_type) THEN Err("DefaultValueType")
         ELSE Ok(Unit)
    ELSE IF ~is_null(constraint.value) /\ logical_type_id(data_type) # value_logical_type_id(constraint.value)
         THEN Err("DefaultValueType")
         ELSE Ok(Unit)

\* validate taking every function expression for current_timestamp().
validate_any_function(constraint, data_type, is_nullable) ==
    IF ~(is_nullable \/ ~maybe_null(constraint)) THEN Err("NullDefault")
    ELSE IF constraint.kind = "Function"
    THEN IF ~is_timestamp_compatible(data_type) THEN Err("DefaultValueType")
         ELSE Ok(Unit)
    ELSE IF ~is_null(constraint.value) /\ logical_type_id(data_type) # value_logical_type_id(constraint.value)
         THEN Err("DefaultValueType")
         ELSE Ok(Unit)

validate(constraint, data_type, is_nullable) ==
    IF ~(is_nullable \/ ~maybe_null(constraint)) THEN Err("NullDefault")
    ELSE IF constraint.kind = "Function"
    THEN IF constraint.expr # CURRENT_TIMESTAMP THEN Err("UnsupportedDefaultExpr")
         ELSE IF ~is_timestamp_compatible(data_type) THEN Err("DefaultValueType")
         ELSE Ok(Unit)
    ELSE IF ~is_null(constraint.value) /\ logical_type_id(data_type) # value_logical_type_id(constraint.value)
         THEN Err("DefaultValueType")
         ELSE Ok(Unit)

\* A vector: the type of its elements and its elements.
Vector(data_type, values) == [data_type |-> data_type, values |-> values]

\* base_vector.replicate(&[num_rows]) of a vector of one element.
replicate(base_vector, num_rows) ==
    Vector(base_vector.data_type, [i \in 1..num_rows |-> base_vector.values[1]])

\* data_type.create_mutable_vector(1) and try_push_value_ref(v): a builder
\* takes NULL and the values of its own type.
try_push_value_ref(data_type, v) ==
    IF is_null(v) \/ value_logical_type_id(v) = logical_type_id(data_type)
    THEN Ok(Vector(data_type, <<v>>))
    ELSE Err("CastType")

\* The readings util::current_time_millis() returns to num_rows calls in a row.
Clocks(num_rows) ==
    {clock \in [1..num_rows -> 1..MaxMillis] : \A i, j \in 1..num_rows : i <= j => clock[i] <= clock[j]}

\* create_current_timestamp_vector without its Int64 arm.
create_current_timestamp_vector_timestamp_only(data_type, num_rows, clock) ==
    IF is_timestamp(data_type)
    THEN Ok(Vector("TimestampMillisecond", [i \in 1..num_rows |-> [type |-> "TimestampMillisecond", v |-> clock[1]]]))
    ELSE Err("DefaultValueType")

\* create_current_timestamp_vector reading the clock once per row.
create_current_timestamp_vector_per_row(data_type, num_rows, clock) ==
    IF is_timestamp(data_type)
    THEN Ok(Vector("TimestampMillisecond", [i \in 1..num_rows |-> [type |-> "TimestampMillisecond", v |-> clock[i]]]))
    ELSE IF data_type = "Int64"
    THEN Ok(Vector("Int64", [i \in 1..num_rows |-> [type |-> "Int64", v |-> clock[i]]]))
    ELSE Err("DefaultValueType")

create_current_timestamp_vector(data_type, num_rows, clock) ==
    IF is_timestamp(data_type)
    THEN Ok(Vector("TimestampMillisecond", [i \in 1..num_rows |-> [type |-> "TimestampMillisecond", v |-> clock[1]]]))
    ELSE IF data_type = "Int64"
    THEN Ok(Vector("Int64", [i \in 1..num_rows |-> [type |-> "Int64", v |-> clock[1]]]))
    ELSE Err("DefaultValueType")

\* What assert!(num_rows > 0) does to a call with no rows.
Panic == [ok |-> FALSE, err |-> "panic"]

create_default_vector(constraint, data_type, is_nullable, num_rows, clock) ==
    IF ~(num_rows > 0) THEN Panic
    ELSE IF constraint.kind = "Function"
    THEN IF constraint.expr = CURRENT_TIMESTAMP
         THEN create_current_timestamp_vector(data_type, num_rows, clock)
         ELSE Err("UnsupportedDefaultExpr")
    ELSE IF ~(is_nullable \/ ~is_null(constraint.value)) THEN Err("NullDefault")
    ELSE LET mutable_vector == try_push_value_ref(data_type, constraint.value)
         IN  IF mutable_vector.ok THEN Ok(replicate(mutable_vector.val, num_rows)) ELSE mutable_vector

\* A constraint, a column and a number of rows, with neither function applied.
InitConstraint ==
    /\ kv_store = [k \in RawKeys |-> None]
    /\ table_infos = [n \in TableName |-> None]
    /\ table_regions = [n \in TableName |-> None]
    /\ pc = [p \in Procs |-> "idle"]
    /\ frame = [p \in Procs |-> NoFrame]
    /\ kv_ops = [p \in Procs |-> <<>>]
    /\ ret = [p \in Procs |-> NoRet]
    /\ last_put = [k \in TableRouteKey |-> NeverPut]
    /\ default_call \in [constraint : ColumnDefaultConstraint, data_type : DataTypes,
                          is_nullable : BOOLEAN, num_rows : 0..MaxRows,
                          validated : {NoRet}, vector : {NoRet}]

Validate ==
    /\ default_call # NoCall /\ default_call.validated = NoRet
    /\ default_call' = [default_call EXCEPT
                           !.validated = validate(default_call.constraint, default_call.data_type,
                                                  default_call.is_nullable)]
    /\ UNCHANGED <<kv_store, table_infos, table_regions, pc, frame, kv_ops, ret, last_put>>

CreateDefaultVector ==
    /\ default_call # NoCall /\ default_call.vector = NoRet
    /\ \E clock \in Clocks(default_call.num_rows) :
          default_call' = [default_call EXCEPT
                              !.vector = create_default_vector(default_call.constraint, default_call.data_type,
                                                               default_call.is_nullable, default_call.num_rows,
                                                               clock)]
    /\ UNCHANGED <<kv_store, table_infos, table_regions, pc, frame, kv_ops, ret, last_put>>

NextConstraint == Validate \/ CreateDefaultVector

SpecConstraint == InitConstraint /\ [][NextConstraint]_vars

\* -------------------------------------------------------------- properties
Done(p, op) == pc[p] = "done" /\ frame[p].op = op

\* The store answered the i-th operation of p's call.
Answered(p, i) == i <= Len(kv_ops[p]) /\ ~kv_ops[p][i].failed

\* C1: last write wins per route key.  A get_table_route_value(k) that the
\* store answers returns the value of the most recent put_table_route_value
\* applied to k, whatever was put before it and under the other keys.
C1_LastWriteWins ==
    \A p \in Procs :
        (Done(p, "get_table_route_value") /\ Answered(p, 1) /\ last_put[frame[p].key].st = "put")
            => ret[p] = Ok(last_put[frame[p].key].val)

\* A get has returned the value put last under its key.
C1_Witness ==
    \E p \in Procs :
        /\ Done(p, "get_table_route_value") /\ Answered(p, 1)
        /\ last_put[frame[p].key].st = "put"
        /\ ret[p].ok

\* C2: the not-found distinction.  On a key the store does not hold,
\* get_table_global_value returns Ok(None) and get_table_route_value fails
\* with TableRouteNotFound carrying the key; neither answers as the other.
C2_NotFoundDistinction ==
    \A p \in Procs :
        /\ (Done(p, "get_table_global_value") /\ Answered(p, 1)
              /\ ~kv_store[to_raw_key(frame[p].key)].some)
               => ret[p] = Ok(None)
        /\ (Done(p, "get_table_route_value") /\ Answered(p, 1)
              /\ ~kv_store[to_string(frame[p].key)].some)
               => ret[p] = ErrKey("TableRouteNotFound", to_string(frame[p].key))

\* A get_table_route_value of a key never written has failed with TableRouteNotFound.
C2_Witness ==
    \E p \in Procs :
        /\ Done(p, "get_table_route_value") /\ Answered(p, 1)
        /\ last_put[frame[p].key] = NeverPut
        /\ ~ret[p].ok /\ ret[p].err = "TableRouteNotFound"

\* The KV put of p's put_table_route_value happens in this step.
PutStep(p) == pc[p] = "put_table_route_value" /\ pc'[p] = "done"

\* C7: idempotence of overwrite.  A put_table_route_value(k, v) that follows
\* a put_table_route_value(k, v) applied to the same key leaves the whole
\* store as the first one left it.
C7_IdempotentOverwrite ==
    [][\A p \in Procs :
          (PutStep(p) /\ last_put[frame[p].key] = Put(frame[p].value)) => kv_store' = kv_store]_vars

\* The same value has been put twice in succession under one key.
C7_Witness ==
    \E p \in Procs :
        /\ Done(p, "put_table_route_value") /\ ret[p].ok
        /\ frame[p].overwritten = Put(frame[p].value)

\* C8: key isolation.  The put of put_table_route_value under a route key
\* changes what is read under no other route key and under no global key.
C8_KeyIsolation ==
    [][\A p \in Procs :
          PutStep(p) =>
              /\ \A k \in TableRouteKey \ {frame[p].key} :
                    get_table_route_value(kv_store', k, FALSE) = get_table_route_value(kv_store, k, FALSE)
              /\ \A g \in TableGlobalKey :
                    get_table_global_value(kv_store', g, FALSE) = get_table_global_value(kv_store, g, FALSE)]_vars

\* A put has been applied while the same names under another table id were
\* never written, another route key held a value and a global value was stored.
C8_Witness ==
    \E p \in Procs :
        /\ Done(p, "put_table_route_value") /\ ret[p].ok
        /\ \E k \in TableRouteKey :
              /\ k.table_id # frame[p].key.table_id /\ k.table_name = frame[p].key.table_name
              /\ last_put[k] = NeverPut
              /\ get_table_route_value(kv_store, k, FALSE).err = "TableRouteNotFound"
        /\ \E k \in TableRouteKey : k.table_name # frame[p].key.table_name /\ last_put[k].st = "put"
        /\ \E g \in TableGlobalKey : kv_store[to_raw_key(g)].some

\* C9: concurrent writers of one route key.  Every put the store applies
\* succeeds, whatever the key holds and whoever else writes it; the key holds
\* the whole value of the put applied last; a reader sees a whole value that
\* was put, or no value.
C9_ConcurrentWriters ==
    /\ \A p \in Procs :
          (Done(p, "put_table_route_value") /\ Answered(p, 1)) => ret[p] = Ok(Unit)
    /\ \A k \in TableRouteKey :
          last_put[k].st = "put" => kv_store[to_string(k)] = Some(into_bytes(last_put[k].val))
    /\ \A p \in Procs :
          (Done(p, "get_table_route_value") /\ Answered(p, 1))
              => ret[p] \in {Ok(v) : v \in TableRouteValue}
                               \cup {ErrKey("TableRouteNotFound", to_string(frame[p].key))}

\* One writer's put has replaced a route while another writer's put of a
\* different value under the same key is under way.
C9_Witness ==
    \E p, q \in Procs :
        /\ Done(p, "put_table_route_value") /\ ret[p].ok
        /\ frame[p].overwritten.st = "put"
        /\ pc[q] = "put_table_route_value"
        /\ frame[q].key = frame[p].key /\ frame[q].value # frame[p].value

\* The raw key of the global value of a table reference, and of the route
\* of a table id under a table reference's names.
GlobalRawKey(table_ref) == <<"__tg", table_ref.catalog, table_ref.schema, table_ref.table>>
RouteRawKey(table_id, table_ref) ==
    <<"__meta_table_route", table_ref.catalog, table_ref.schema, table_ref.table, table_id>>

\* The raw key of the route of a table info.
InfoRouteRawKey(table_info) ==
    <<"__meta_table_route", table_info.catalog_name, table_info.schema_name, table_info.name,
      table_info.table_id>>

\* `store` holds a route under raw_key and it decodes.
Readable(store, raw_key) == store[raw_key].some /\ try_into(store[raw_key].val).ok

\* The pairs of the names that have a table info, in the order of the names,
\* each table info with the route the store holds for it.
RECURSIVE Resolved(_)
Resolved(table_names) ==
    IF table_names = <<>> THEN <<>>
    ELSE LET info == table_infos[Head(table_names)]
             rest == Resolved(Tail(table_names))
         IN  IF info.some
             THEN <<<<info.val, try_into(kv_store[InfoRouteRawKey(info.val)].val).val>>>> \o rest
             ELSE rest

\* C3: batched fetch abort.  In fetch_tables, a route read that fails (the
\* KV get fails, the route key is absent, or the route does not decode) for
\* a name that has a table info is the last operation of the call, at
\* whatever position the name stands, and the call returns that error and
\* none of the pairs it has collected.
C3_BatchAbort ==
    \A p \in Procs :
        frame[p].op = "fetch_tables" =>
            \A i \in 1..Len(kv_ops[p]) :
                LET get == kv_ops[p][i]
                IN  (get.op = "get" /\ (get.failed \/ ~Readable(kv_store, get.key))) =>
                        /\ kv_ops[p][i - 1].op = "get_old"
                        /\ table_infos[kv_ops[p][i - 1].name].some
                        /\ get.key = InfoRouteRawKey(table_infos[kv_ops[p][i - 1].name].val)
                        /\ i = Len(kv_ops[p])
                        /\ pc[p] = "done"
                        /\ ~ret[p].ok
                        /\ ret[p] = IF get.failed THEN Err("StoreUnavailable")
                                    ELSE IF ~kv_store[get.key].some THEN ErrKey("TableRouteNotFound", get.key)
                                    ELSE Err("DecodeTableRoute")

\* A fetch_tables has failed on a missing route after it had collected the
\* pair of an earlier name.
C3_Witness ==
    \E p \in Procs :
        /\ Done(p, "fetch_tables")
        /\ ~ret[p].ok /\ ret[p].err = "TableRouteNotFound"
        /\ Len(frame[p].tables) >= 1

\* C4: batched fetch skip.  When the catalog manager and the store answer
\* and every name that has a table info has a readable route, fetch_tables
\* succeeds with exactly the pairs of the names that have a table info, in
\* the order of the names and no more of them than names, each table info
\* with the route stored under the key of its table id, catalog, schema and
\* name; a name without a table info adds nothing and fails nothing.
C4_BatchSkip ==
    \A p \in Procs :
        LET table_names == frame[p].table_names
        IN  ( /\ Done(p, "fetch_tables")
              /\ \A i \in 1..Len(kv_ops[p]) : ~kv_ops[p][i].failed
              /\ \A i \in 1..Len(table_names) :
                    table_infos[table_names[i]].some =>
                        Readable(kv_store, InfoRouteRawKey(table_infos[table_names[i]].val)) )
            => /\ ret[p] = Ok([tables |-> Resolved(table_names)])
               /\ Len(ret[p].val.tables) <= Len(table_names)

\* A fetch_tables of three names, the second without a table info, has
\* returned the pairs of the first and of the third.
C4_Witness ==
    \E p \in Procs :
        /\ Done(p, "fetch_tables") /\ ret[p].ok
        /\ Len(frame[p].table_names) = 3
        /\ ~table_infos[frame[p].table_names[2]].some
        /\ Len(ret[p].val.tables) = 2

\* C5: fetch_table reports a missing route.  A fetch_table whose first get
\* found a global value never returns after that one get and never returns
\* Ok(None); when the route key of the resolved table id is absent at its
\* second get it returns TableRouteNotFound with that key.
C5_MissingRouteIsError ==
    \A p \in Procs :
        Done(p, "fetch_table") =>
            LET table_ref == frame[p].table_ref
                g == kv_store[GlobalRawKey(table_ref)]
            IN  /\ (Len(kv_ops[p]) = 1 /\ Answered(p, 1)) => ~(g.some /\ from_bytes(g.val).ok)
                /\ frame[p].tgv.some =>
                      LET raw_key == RouteRawKey(frame[p].tgv.val.table_id, table_ref)
                      IN  /\ Len(kv_ops[p]) = 2
                          /\ ret[p] # Ok(None)
                          /\ ret[p].ok => (ret[p].val.some /\ Len(ret[p].val.val) = 2)
                          /\ (Answered(p, 2) /\ ~kv_store[raw_key].some)
                                => ret[p] = ErrKey("TableRouteNotFound", raw_key)

\* A fetch_table has failed with TableRouteNotFound while the store holds
\* the global value of its table.
C5_Witness ==
    \E p \in Procs :
        /\ Done(p, "fetch_table")
        /\ ~ret[p].ok /\ ret[p].err = "TableRouteNotFound"
        /\ frame[p].tgv.some
        /\ kv_store[GlobalRawKey(frame[p].table_ref)] = Some(as_bytes(frame[p].tgv.val))

\* C6: the two gets of fetch_table.  The first step of a call is one KV get
\* of the global key of the requested names; if the key is absent the call
\* returns Ok(None) there, with no get of a route key; if it decodes the
\* call goes on, and its second step is one KV get of the route key of the
\* resolved table id and the requested names, and what it returns, when the
\* route decodes, is the pair of the global value and that route.
C6_GlobalThenRoute ==
    [][\A p \in Procs :
          /\ (pc[p] = "idle" /\ pc'[p] # "idle") =>
                LET raw_key == GlobalRawKey(frame'[p].table_ref)
                    g == kv_store[raw_key]
                    get == kv_ops'[p][1]
                IN  /\ Len(kv_ops'[p]) = 1 /\ get.op = "get" /\ get.key = raw_key
                    /\ (~get.failed /\ ~g.some) => (pc'[p] = "done" /\ ret'[p] = Ok(None))
                    /\ (~get.failed /\ g.some /\ from_bytes(g.val).ok)
                          => (pc'[p] = "fetch_table_route" /\ frame'[p].tgv = Some(from_bytes(g.val).val))
          /\ (pc[p] = "fetch_table_route" /\ pc'[p] # "fetch_table_route") =>
                LET tgv == frame[p].tgv.val
                    raw_key == RouteRawKey(tgv.table_id, frame[p].table_ref)
                    r == kv_store[raw_key]
                    get == kv_ops'[p][2]
                IN  /\ Len(kv_ops'[p]) = 2 /\ get.op = "get" /\ get.key = raw_key
                    /\ pc'[p] = "done" /\ ret'[p] # Ok(None)
                    /\ (~get.failed /\ Readable(kv_store, raw_key))
                          => ret'[p] = Ok(Some(<<tgv, try_into(r.val).val>>))]_vars

\* A fetch_table has returned Ok(None) after its one get of the global key,
\* while the store holds a route under the requested names.
C6_Witness ==
    \E p \in Procs :
        /\ Done(p, "fetch_table") /\ ret[p] = Ok(None)
        /\ Len(kv_ops[p]) = 1 /\ kv_ops[p][1].key \in GlobalRawKeys
        /\ \E table_id \in TableIds : kv_store[RouteRawKey(table_id, frame[p].table_ref)].some

CorruptRoute(store, raw_key) == store[raw_key].some /\ ~try_into(store[raw_key].val).ok

\* `store` holds bytes under raw_key that are no global value.
CorruptGlobal(store, raw_key) == store[raw_key].some /\ ~from_bytes(store[raw_key].val).ok

\* The last operation of p's call.
LastOp(p) == kv_ops[p][Len(kv_ops[p])]

\* C11: corrupt data is surfaced.  A get that the store answers with bytes
\* that do not decode makes get_table_route_value fail with DecodeTableRoute
\* and get_table_global_value fail with InvalidCatalogValue, and a
\* fetch_table or fetch_tables whose get read such bytes fails with the same
\* error; none of them returns a value, Ok(None) or TableRouteNotFound.
C11_CorruptIsSurfaced ==
    \A p \in Procs :
        (pc[p] = "done" /\ Len(kv_ops[p]) >= 1 /\ LastOp(p).op = "get" /\ ~LastOp(p).failed) =>
            /\ (LastOp(p).key \in RouteRawKeys /\ CorruptRoute(kv_store, LastOp(p).key))
                  => (frame[p].op \in {"get_table_route_value", "fetch_table", "fetch_tables"}
                        /\ ret[p] = Err("DecodeTableRoute"))
            /\ (LastOp(p).key \in GlobalRawKeys /\ CorruptGlobal(kv_store, LastOp(p).key))
                  => (frame[p].op \in {"get_table_global_value", "fetch_table"}
                        /\ ret[p] = Err("InvalidCatalogValue"))

\* A fetch_table has failed with DecodeTableRoute on the corrupt route of a
\* table whose global value the store holds.
C11_Witness ==
    \E p \in Procs :
        /\ Done(p, "fetch_table") /\ Len(kv_ops[p]) = 2
        /\ ret[p] = Err("DecodeTableRoute")
        /\ CorruptRoute(kv_store, kv_ops[p][2].key)

\* C12: no error is swallowed but the documented skip.  A call in which a
\* catalog lookup or a KV get failed, or a get read bytes that do not decode,
\* returns an error: a failed catalog lookup is TableMetadataManager, never a
\* skipped name.  A fetch_tables that succeeds got an answer to every lookup
\* and leaves out exactly the names the catalog has no table info for.
C12_OnlyAbsentIsSkipped ==
    \A p \in Procs :
        pc[p] = "done" =>
            /\ \A i \in 1..Len(kv_ops[p]) :
                  LET op == kv_ops[p][i]
                  IN  /\ op.failed => (~ret[p].ok /\ i = Len(kv_ops[p]))
                      /\ (op.failed /\ op.op = "get_old") => ret[p] = Err("TableMetadataManager")
                      /\ (op.failed /\ op.op = "get") => ret[p] = Err("StoreUnavailable")
                      /\ (op.op = "get" /\ ~op.failed
                            /\ (IF op.key \in RouteRawKeys THEN CorruptRoute(kv_store, op.key)
                                                           ELSE CorruptGlobal(kv_store, op.key)))
                            => ~ret[p].ok
            /\ (frame[p].op = "fetch_tables" /\ ret[p].ok) =>
                  /\ Len(ret[p].val.tables)
                        = Cardinality({i \in 1..Len(frame[p].table_names) : table_infos[frame[p].table_names[i]].some})
                  /\ Cardinality({i \in 1..Len(kv_ops[p]) : kv_ops[p][i].op = "get_old"})
                        = Len(frame[p].table_names)

\* A fetch_tables has failed with TableMetadataManager on the lookup of a
\* name the catalog holds a table info for, after collecting an earlier pair.
C12_Witness ==
    \E p \in Procs :
        /\ Done(p, "fetch_tables") /\ ret[p] = Err("TableMetadataManager")
        /\ LastOp(p).op = "get_old" /\ LastOp(p).failed
        /\ table_infos[LastOp(p).name].some
        /\ Len(frame[p].tables) >= 1

\* C13: put_table_route_value fails exactly when its KV put fails, whatever
\* route value it writes; a put that succeeds leaves the whole new value
\* under its key, and a put that fails (or is cancelled at its await) leaves
\* there the whole new value or what the key held before, and changes no
\* other key.
C13_PutFailsOnlyWithStore ==
    [][\A p \in Procs :
          PutStep(p) =>
              LET raw_key == to_string(frame[p].key)
                  new == Some(into_bytes(frame[p].value))
              IN  /\ ret'[p].ok <=> ~kv_ops'[p][1].failed
                  /\ ret'[p] \in {Ok(Unit), Err("StoreUnavailable")}
                  /\ ret'[p].ok => kv_store'[raw_key] = new
                  /\ kv_store'[raw_key] \in {new, kv_store[raw_key]}
                  /\ \A k \in RawKeys \ {raw_key} : kv_store'[k] = kv_store[k]]_vars

\* A put has failed over a route that another put had stored, and the key
\* still holds that whole other route.
C13_Witness ==
    \E p \in Procs :
        /\ Done(p, "put_table_route_value") /\ ret[p] = Err("StoreUnavailable")
        /\ frame[p].overwritten.st = "put" /\ frame[p].overwritten.val # frame[p].value
        /\ kv_store[to_string(frame[p].key)] = Some(into_bytes(frame[p].overwritten.val))

\* Every route value `store` holds keeps the invariants of a route value.
StoredWellFormed(store) ==
    \A k \in RouteRawKeys : Readable(store, k) => WellFormed(try_into(store[k].val).val)

C15_RegionDistributionConsistent ==
    \A table_name \in TableName :
        (table_infos[table_name].some /\ table_regions[table_name].some
            /\ Readable(kv_store, InfoRouteRawKey(table_infos[table_name].val)))
        => table_regions[table_name].val
              = region_distribution(try_into(kv_store[InfoRouteRawKey(table_infos[table_name].val)].val).val)

\* The route record of key k is ACTIVE in `store` (NONEXISTENT otherwise).
Active(store, k) == store[to_string(k)].some

\* The KV get of p's get_table_route_value happens in this step.
GetStep(p) == pc[p] = "idle" /\ pc'[p] = "done" /\ frame'[p].op = "get_table_route_value"

\* C16: the lifecycle of a route record.  A record is NONEXISTENT until a
\* put_table_route_value is applied to its key and ACTIVE from then on; a
\* further put leaves it ACTIVE and holding the whole new value; an answered
\* get_table_route_value fails with TableRouteNotFound exactly when the
\* record is NONEXISTENT and succeeds when it is ACTIVE; an ACTIVE record
\* becomes NONEXISTENT by no step of a call of the routing store, only by a
\* drop.
C16_RouteLifecycle ==
    [][\A k \in TableRouteKey :
          /\ Active(kv_store, k) <=> last_put[k].st # "never"
          /\ (~Active(kv_store, k) /\ Active(kv_store', k))
                => \E p \in Procs : PutStep(p) /\ frame[p].key = k
          /\ (Active(kv_store, k) /\ ~Active(kv_store', k)) => pc' = pc
          /\ \A p \in Procs :
                /\ (PutStep(p) /\ frame[p].key = k /\ ret'[p].ok)
                      => kv_store'[to_string(k)] = Some(into_bytes(frame[p].value))
                /\ (GetStep(p) /\ frame'[p].key = k /\ ~kv_ops'[p][1].failed)
                      => /\ ret'[p].ok <=> Active(kv_store, k)
                         /\ ~Active(kv_store, k) => ret'[p] = ErrKey("TableRouteNotFound", to_string(k))]_vars

\* A put has replaced the route of an ACTIVE record by another route, and
\* the record of the other table id of the same table is NONEXISTENT.
C16_Witness ==
    \E p \in Procs :
        /\ Done(p, "put_table_route_value") /\ ret[p].ok
        /\ frame[p].overwritten.st = "put" /\ frame[p].overwritten.val # frame[p].value
        /\ Active(kv_store, frame[p].key)
        /\ \E k \in DdlRouteKeys : ~Active(kv_store, k)

\* A call's result, once it has one: an error it returned, or a vector.
IsErr(r) == r # NoRet /\ r # Panic /\ ~r.ok
IsVector(r) == r # NoRet /\ r # Panic /\ r.ok
AllValues(vector, n, v) ==
    /\ DOMAIN vector.values = 1..n
    /\ \A i \in 1..n : vector.values[i] = v

C18_ValidateAccepts ==
    default_call # NoCall /\ default_call.validated # NoRet =>
        LET c == default_call.constraint
            accepted ==
                \/ c = Function("current_timestamp()") /\ is_timestamp_compatible(default_call.data_type)
                \/ /\ c.kind = "Value" /\ c.value # NullValue
                   /\ value_logical_type_id(c.value) = logical_type_id(default_call.data_type)
                \/ c = Value(NullValue) /\ default_call.is_nullable
        IN  IF accepted THEN default_call.validated = Ok(Unit) ELSE IsErr(default_call.validated)

\* validate has rejected a function other than current_timestamp() on a
\* column that current_timestamp() would suit.
C18_Witness ==
    /\ default_call # NoCall /\ default_call.constraint = Function("hello()")
    /\ default_call.data_type = "TimestampMillisecond"
    /\ IsErr(default_call.validated)

\* C19: create_default_vector with num_rows > 0, when it succeeds, returns
\* num_rows elements that are all the same value: the constraint's value for
\* Value(v), or one clock reading (a Timestamp for a timestamp column, an
\* Int64 for an Int64 column) for Function("current_timestamp()"). Any other
\* function expression fails with UnsupportedDefaultExpr, and
\* current_timestamp() on any other column type with DefaultValueType.
C19_DefaultVector ==
    default_call # NoCall /\ default_call.vector # NoRet /\ default_call.num_rows > 0 =>
        LET c == default_call.constraint
            data_type == default_call.data_type
            r == default_call.vector
        IN  /\ r # Panic
            /\ r.ok /\ c.kind = "Value" => AllValues(r.val, default_call.num_rows, c.value)
            /\ r.ok /\ c.kind = "Function" =>
                  /\ c.expr = "current_timestamp()"
                  /\ is_timestamp(data_type) \/ data_type = "Int64"
                  /\ \E now \in 1..MaxMillis :
                        AllValues(r.val, default_call.num_rows,
                                  [type |-> IF data_type = "Int64" THEN "Int64" ELSE "TimestampMillisecond",
                                   v |-> now])
            /\ c.kind = "Function" /\ c.expr # "current_timestamp()" => r = Err("UnsupportedDefaultExpr")
            /\ c = Function("current_timestamp()") /\ ~is_timestamp(data_type) /\ data_type # "Int64" =>
                  r = Err("DefaultValueType")

\* current_timestamp() has filled several rows of a timestamp column.
C19_Witness ==
    /\ default_call # NoCall /\ default_call.constraint = Function("current_timestamp()")
    /\ default_call.data_type = "TimestampSecond" /\ default_call.num_rows >= 2
    /\ IsVector(default_call.vector)

\* The operations `ops` are, for the names of a prefix of `table_names` and
\* in their order, the catalog lookup of the name and then, if any, the get
\* of a route key of that name.
RECURSIVE InInputOrder(_, _)
InInputOrder(ops, table_names) ==
    IF ops = <<>> THEN TRUE
    ELSE IF table_names = <<>> THEN FALSE
    ELSE /\ ops[1].op = "get_old" /\ ops[1].name = table_names[1]
         /\ IF Len(ops) >= 2 /\ ops[2].op = "get"
            THEN /\ ops[2].key \in {to_string(k) : k \in {r \in TableRouteKey : name_of_key(r) = table_names[1]}}
                 /\ InInputOrder(SubSeq(ops, 3, Len(ops)), Tail(table_names))
            ELSE InInputOrder(Tail(ops), Tail(table_names))

\* The names of `tables` are names of `table_names`, in their order.
RECURSIVE InOrderOf(_, _)
InOrderOf(tables, table_names) ==
    IF tables = <<>> THEN TRUE
    ELSE IF table_names = <<>> THEN FALSE
    ELSE IF name_of(tables[1][1]) = table_names[1]
    THEN InOrderOf(Tail(tables), Tail(table_names))
    ELSE InOrderOf(tables, Tail(table_names))

\* The lookup `op` returned an error: the manager or the store failed, or
\* the get found no route, or a route that does not decode.
Errored(op) == op.failed \/ (op.op = "get" /\ ~Readable(kv_store, op.key))

\* C20: fetch_tables performs its lookups strictly sequentially in input
\* order.  For each name in turn the catalog lookup comes first and the route
\* get of that name, if any, next, before any lookup for the name after it;
\* a lookup that returned an error is the last one issued; and the pairs
\* returned stand in the order of the names.
C20_SequentialInOrder ==
    \A p \in Procs :
        frame[p].op = "fetch_tables" =>
            /\ InInputOrder(kv_ops[p], frame[p].table_names)
            /\ \A i \in 1..Len(kv_ops[p]) : Errored(kv_ops[p][i]) => i = Len(kv_ops[p])
            /\ InOrderOf(frame[p].tables, frame[p].table_names)
            /\ (pc[p] = "done" /\ ret[p].ok) => InOrderOf(ret[p].val.tables, frame[p].table_names)

\* A fetch_tables of two different names has looked up the info and the
\* route of the first, then the info and the route of the second, and has
\* returned both pairs.
C20_Witness ==
    \E p \in Procs :
        /\ Done(p, "fetch_tables") /\ ret[p].ok
        /\ Len(frame[p].table_names) >= 2 /\ frame[p].table_names[1] # frame[p].table_names[2]
        /\ Len(kv_ops[p]) >= 4 /\ Len(ret[p].val.tables) >= 2

\* C21: no internal retry.  Each call of get_table_global_value,
\* get_table_route_value and put_table_route_value issues exactly one KV
\* operation (a get for the two gets, a put for the put), and when that
\* operation fails the call returns the failure, with no second operation.
C21_NoInternalRetry ==
    \A p \in Procs :
        frame[p].op \in {"get_table_global_value", "get_table_route_value", "put_table_route_value"} =>
            /\ Len(kv_ops[p]) <= 1
            /\ pc[p] = "done" =>
                  /\ Len(kv_ops[p]) = 1
                  /\ kv_ops[p][1].op = (IF frame[p].op = "put_table_route_value" THEN "put" ELSE "get")
                  /\ kv_ops[p][1].failed => ret[p] = Err("StoreUnavailable")
                  /\ ret[p] = Err("StoreUnavailable") => kv_ops[p][1].failed

\* A get_table_route_value has returned the failure of its one KV get,
\* though the key holds a route that a second get would have found.
C21_Witness ==
    \E p \in Procs :
        /\ Done(p, "get_table_route_value")
        /\ Len(kv_ops[p]) = 1 /\ kv_ops[p][1].failed
        /\ ret[p] = Err("StoreUnavailable")
        /\ Readable(kv_store, to_string(frame[p].key))

\* The read operations of the routing store.
ReadOps == {"get_table_global_value", "get_table_route_value", "fetch_table", "fetch_tables"}

\* p's read takes a step other than handing its result to the caller.
ReadStep(p) == frame'[p].op \in ReadOps /\ <<pc[p], kv_ops[p]>> # <<pc'[p], kv_ops'[p]>>

\* C22: reads are pure with respect to the store.  No step of
\* get_table_global_value, get_table_route_value, fetch_table or fetch_tables
\* issues a KV put or changes what the store holds, whether the read succeeds
\* or fails; and a read that finishes while other reads are under way, of
\* the same or of other tables, returns what it returns when run alone: with
\* a store and a catalog that answer, the result of the whole function on
\* the store, and otherwise the failure of its lookup.
C22_ReadsArePure ==
    [][\A p \in Procs :
          ReadStep(p) =>
              /\ kv_store' = kv_store
              /\ \A i \in 1..Len(kv_ops'[p]) : kv_ops'[p][i].op \in {"get", "get_old"}
              /\ pc'[p] = "done" =>
                    IF \A i \in 1..Len(kv_ops'[p]) : ~kv_ops'[p][i].failed
                    THEN ret'[p] = RunAlone(frame'[p], kv_store', table_infos')
                    ELSE ret'[p] \in {Err("StoreUnavailable"), Err("TableMetadataManager")}]_vars

\* A fetch_table has returned a table and its route while the other caller
\* is between the two gets of a fetch_table of the same table.
C22_Witness ==
    \E p, q \in Procs :
        /\ p # q
        /\ Done(p, "fetch_table") /\ ret[p].ok /\ ret[p].val.some
        /\ pc[q] = "fetch_table_route" /\ frame[q].table_ref = frame[p].table_ref
        /\ kv_store[to_raw_key(frame[p].tgk)].some

====
